---- MODULE Spec2Model ----
(***************************************************************************)
(* A model of extension/scripts/background-worker.js: the permission       *)
(* listeners that keep the registered content script in step with the      *)
(* granted origins, the content-script readiness check, and the            *)
(* get-inventory command with its two-page inventory fetch.                *)
(*                                                                         *)
(* Every await of the source is a suspension point: the part of a handler  *)
(* before an await and the part after it are separate actions, and the     *)
(* host call itself takes effect (on the browser's side) in the step that  *)
(* resolves it.                                                            *)
(***************************************************************************)
EXTENDS Integers, Sequences, FiniteSets, TLC

\* ------------------------------------------------------------------ bounds
MaxOrigins == 2
MaxEvents == 3
MaxTabs == 2
MaxItem == 2
MaxLen == 1

Origins == 1..MaxOrigins
Events == 1..MaxEvents
Tabs == 1..MaxTabs
Items == 1..MaxItem

VARIABLES
    granted,        \* the origins the host currently grants the extension
    registration,   \* the host's registered content script 'content-script'
    handlers,       \* the permission listeners' invocations, by delivery order
    delivered,      \* the number of permission events delivered so far
    doneReg,        \* the registration as each invocation left it
    checks,         \* the readiness check of each tab (ensureContentScript)
    cmds            \* the inbound messages and the commands they started

permVars == <<granted, registration, handlers, delivered, doneReg>>
checkVars == <<checks>>
cmdVars == <<cmds>>

vars == <<granted, registration, handlers, delivered, doneReg, checks, cmds>>

\* ------------------------------------------------------------- sequences
Range(s) == {s[i] : i \in 1..Len(s)}

RECURSIVE SetToSeq(_)
\* The origins of a permission event as the array the host delivers.
SetToSeq(S) ==
    IF S = {} THEN <<>>
    ELSE LET m == CHOOSE x \in S : \A y \in S : x <= y
         IN <<m>> \o SetToSeq(S \ {m})

RECURSIVE DedupFrom(_, _)
DedupFrom(s, seen) ==
    IF s = <<>> THEN <<>>
    ELSE IF Head(s) \in seen THEN DedupFrom(Tail(s), seen)
         ELSE <<Head(s)>> \o DedupFrom(Tail(s), seen \cup {Head(s)})

\* [...new Set(s)]: the first occurrence of each element, in order.
Dedup(s) == DedupFrom(s, {})

\* ---------------------------------------------------- the host's registry
Absent == [present |-> FALSE, matches |-> <<>>]
Present(m) == [present |-> TRUE, matches |-> m]

\* browser.scripting.registerContentScripts: a script id already registered
\* is refused (the call rejects) and the registry is left as it was.
HostRegister(reg, m) == IF reg.present THEN reg ELSE Present(m)

\* browser.scripting.updateContentScripts: an id that is not registered is
\* refused and the registry is left as it was.
HostUpdate(reg, m) == IF reg.present THEN Present(m) ELSE reg

\* browser.scripting.unregisterContentScripts
HostUnregister(reg) == Absent

HostCall(reg, call, m) ==
    CASE call = "register" -> HostRegister(reg, m)
      [] call = "update" -> HostUpdate(reg, m)
      [] call = "unregister" -> HostUnregister(reg)
      [] OTHER -> reg

\* ------------------------------------------- the permission listeners
\* onAdded: matches: [...new Set([...activeScript?.matches ?? [], ...newOrigins])]
AddedMatchesConcat(activeScript, newOrigins) == activeScript.matches \o newOrigins
AddedMatches(activeScript, newOrigins) ==
    Dedup(activeScript.matches \o newOrigins)

\* onAdded: update the script that was read, register when none was read.
AddedCall(activeScript, m) ==
    IF activeScript.present THEN "update" ELSE "register"

RemovedMatchesKeepRemoved(activeScript, removedOrigins) ==
    IF activeScript.present
    THEN SelectSeq(activeScript.matches, LAMBDA o : o \in Range(removedOrigins))
    ELSE <<>>

\* onRemoved: the matches of the script read that were not removed.
RemovedMatches(activeScript, removedOrigins) ==
    IF activeScript.present
    THEN SelectSeq(activeScript.matches, LAMBDA o : o \notin Range(removedOrigins))
    ELSE <<>>

RemovedCallRegisterAbsent(activeScript, m) ==
    IF activeScript.present
    THEN IF Len(m) > 0 THEN "update" ELSE "unregister"
    ELSE "register"

RemovedCallKeepEmpty(activeScript, m) ==
    IF activeScript.present THEN "update"
    ELSE IF Len(m) > 0 THEN "register" ELSE "none"
\* onRemoved: update, unregister or register, or nothing at all.
RemovedCall(activeScript, m) ==
    IF activeScript.present
    THEN IF Len(m) > 0 THEN "update" ELSE "unregister"
    ELSE IF Len(m) > 0 THEN "register" ELSE "none"

IdleHandler ==
    [kind |-> "none", origins |-> <<>>, pc |-> "idle",
     activeScript |-> Absent, call |-> "none", matches |-> <<>>]

\* The listener up to its first await: an event without origins returns at
\* once, any other asks the host for the registered script.
Invoke(kind, origins) ==
    [IdleHandler EXCEPT !.kind = kind, !.origins = origins,
                        !.pc = IF Len(origins) = 0 THEN "done" ELSE "awaitRead"]

\* The host grants the origins S and delivers permissions.onAdded.
OnAdded(S) ==
    /\ delivered < MaxEvents
    /\ S \cap granted = {}
    /\ granted' = granted \cup S
    /\ delivered' = delivered + 1
    /\ handlers' = [handlers EXCEPT ![delivered + 1] = Invoke("added", SetToSeq(S))]
    /\ doneReg' = [doneReg EXCEPT ![delivered + 1] =
                       IF S = {} THEN registration ELSE @]
    /\ UNCHANGED <<registration, checkVars, cmdVars>>

\* The host revokes the origins S and delivers permissions.onRemoved.
OnRemoved(S) ==
    /\ delivered < MaxEvents
    /\ S \subseteq granted
    /\ granted' = granted \ S
    /\ delivered' = delivered + 1
    /\ handlers' = [handlers EXCEPT ![delivered + 1] = Invoke("removed", SetToSeq(S))]
    /\ doneReg' = [doneReg EXCEPT ![delivered + 1] =
                       IF S = {} THEN registration ELSE @]
    /\ UNCHANGED <<registration, checkVars, cmdVars>>

\* The listener from the answer of getRegisteredContentScripts to its next
\* await: it builds newScript and calls the host, or has nothing to call.
AfterRead(h, activeScript) ==
    LET m == IF h.kind = "added"
             THEN AddedMatches(activeScript, h.origins)
             ELSE RemovedMatches(activeScript, h.origins)
        call == IF h.kind = "added"
                THEN AddedCall(activeScript, m)
                ELSE RemovedCall(activeScript, m)
    IN [h EXCEPT !.activeScript = activeScript, !.matches = m, !.call = call,
                 !.pc = IF call = "none" THEN "done" ELSE "awaitWrite"]

\* getRegisteredContentScripts({ ids: ['content-script'] }) resolves for
\* invocation i with the registration as it is now.
ReadResolve(i) ==
    /\ handlers[i].pc = "awaitRead"
    /\ handlers' = [handlers EXCEPT ![i] = AfterRead(@, registration)]
    /\ doneReg' = [doneReg EXCEPT ![i] =
                       IF handlers'[i].pc = "done" THEN registration ELSE @]
    /\ UNCHANGED <<granted, registration, delivered, checkVars, cmdVars>>

\* The register, update or unregister call of invocation i takes effect and
\* the listener ends.
WriteResolve(i) ==
    /\ handlers[i].pc = "awaitWrite"
    /\ registration' = HostCall(registration, handlers[i].call, handlers[i].matches)
    /\ handlers' = [handlers EXCEPT ![i].pc = "done"]
    /\ doneReg' = [doneReg EXCEPT ![i] = registration']
    /\ UNCHANGED <<granted, delivered, checkVars, cmdVars>>

PermInit ==
    /\ granted = {}
    /\ registration = Absent
    /\ handlers = [i \in Events |-> IdleHandler]
    /\ delivered = 0
    /\ doneReg = [i \in Events |-> Absent]

\* ------------------------------------------------- the readiness check
NoError == [message |-> "", tab |-> 0]

\* new Error(`Failed to inject content script into tab ${tabId}`)
InjectionError(tabId) ==
    [message |-> "Failed to inject content script into tab", tab |-> tabId]

\* The rejection of browser.scripting.executeScript, as the host words it.
ExecuteScriptError == [message |-> "executeScript rejected", tab |-> 0]

IdleCheck ==
    [pc |-> "idle", tabId |-> 0, attempt |-> 0, probes |-> <<>>,
     injections |-> <<>>, error |-> NoError, envelopes |-> <<>>,
     unhandled |-> FALSE]

\* ensureContentScript(tabId, attempt) up to its first await: it sends the
\* probe { event: 'content-script-check' } to the tab.
SendProbe(c, tabId, attempt) ==
    [c EXCEPT !.pc = "probing", !.tabId = tabId, !.attempt = attempt]

\* The answers browser.tabs.sendMessage can give and browser.scripting
\* .executeScript can give.
ProbeOutcomes == {"response", "undefined", "throws"}
InjectOutcomes == {"injected", "rejects"}

AfterProbeAlwaysInject(c, outcome) ==
    [c EXCEPT !.pc = "injecting", !.probes = Append(@, outcome)]

AfterProbeUndefinedReady(c, outcome) ==
    IF outcome \in {"response", "undefined"}
    THEN [c EXCEPT !.pc = "ready", !.probes = Append(@, outcome)]
    ELSE [c EXCEPT !.pc = "injecting", !.probes = Append(@, outcome)]

\* After the probe: any defined response returns true; an undefined one
\* throws into the catch block as a rejected probe does, and the catch block
\* calls executeScript.
AfterProbe(c, outcome) ==
    IF outcome = "response"
    THEN [c EXCEPT !.pc = "ready", !.probes = Append(@, outcome)]
    ELSE [c EXCEPT !.pc = "injecting", !.probes = Append(@, outcome)]

AfterInjectUnbounded(c, outcome) ==
    IF outcome = "rejects"
    THEN [c EXCEPT !.pc = "failed", !.injections = Append(@, outcome),
                   !.error = ExecuteScriptError]
    ELSE SendProbe([c EXCEPT !.injections = Append(@, outcome)], c.tabId, 0)

AfterInjectNoRetry(c, outcome) ==
    IF outcome = "rejects"
    THEN [c EXCEPT !.pc = "failed", !.injections = Append(@, outcome),
                   !.error = ExecuteScriptError]
    ELSE [c EXCEPT !.pc = "failed", !.injections = Append(@, outcome),
                   !.error = InjectionError(c.tabId)]

\* After executeScript, in the catch block: its rejection leaves the function
\* as it is; otherwise the first attempt calls ensureContentScript(tabId, 1)
\* and the second throws the error that names the tab.
AfterInject(c, outcome) ==
    IF outcome = "rejects"
    THEN [c EXCEPT !.pc = "failed", !.injections = Append(@, outcome),
                   !.error = ExecuteScriptError]
    ELSE IF c.attempt = 0
         THEN SendProbe([c EXCEPT !.injections = Append(@, outcome)], c.tabId, 1)
         ELSE [c EXCEPT !.pc = "failed", !.injections = Append(@, outcome),
                        !.error = InjectionError(c.tabId)]

\* The onClicked listener after await ensureContentScript(tab.id): when that
\* call rejected, the listener's own promise rejects and nothing handles it;
\* the listener has no respond to call and sends no envelope.
ClickListener(c) ==
    IF c.pc = "failed" THEN [c EXCEPT !.unhandled = TRUE] ELSE c

\* browser.action.onClicked: the listener calls ensureContentScript(tab.id).
\* A tab is clicked again once its check has ended, which starts a new check.
Clicked(t) ==
    /\ checks[t].pc \in {"idle", "ready", "failed"}
    /\ checks' = [checks EXCEPT ![t] = SendProbe(IdleCheck, t, 0)]
    /\ UNCHANGED <<permVars, cmdVars>>

\* browser.tabs.sendMessage settles.
ProbeResolve(t) ==
    /\ checks[t].pc = "probing"
    /\ \E outcome \in ProbeOutcomes :
           checks' = [checks EXCEPT ![t] = ClickListener(AfterProbe(@, outcome))]
    /\ UNCHANGED <<permVars, cmdVars>>

\* browser.scripting.executeScript settles.
InjectResolve(t) ==
    /\ checks[t].pc = "injecting"
    /\ \E outcome \in InjectOutcomes :
           checks' = [checks EXCEPT ![t] = ClickListener(AfterInject(@, outcome))]
    /\ UNCHANGED <<permVars, cmdVars>>

CheckInit == checks = [t \in Tabs |-> IdleCheck]

CheckNext ==
    \/ \E t \in Tabs : Clicked(t)
    \/ \E t \in Tabs : ProbeResolve(t)
    \/ \E t \in Tabs : InjectResolve(t)

\* --------------------------------------------- the get-inventory command
FirstCount == 75
NextCount == 2000
IdDigits == 17

\* A field of a JSON body that may be missing: an array, or undefined.
Undefined == [has |-> FALSE, seq |-> <<>>]
Arr(s) == [has |-> TRUE, seq |-> s]

ItemSeqs == UNION {[1..n -> Items] : n \in 0..MaxLen}
Fields == {Undefined} \cup {Arr(s) : s \in ItemSeqs}

\* last_assetid: an asset id, or 0 when the body carries none.
NoCursor == 0
Cursors == {NoCursor} \cup Items

\* The JSON bodies the inventory endpoint may answer with.
Pages ==
    [assets : Fields, descriptions : Fields, more_items : BOOLEAN,
     last_assetid : Cursors]

NoPage ==
    [assets |-> Undefined, descriptions |-> Undefined, more_items |-> FALSE,
     last_assetid |-> NoCursor]

\* What a fetch of the inventory endpoint ends in: a rejected fetch, a
\* response that is not ok, a body that is no JSON, or a JSON body.
FetchOutcomes ==
    {[kind |-> k, page |-> NoPage] : k \in {"neterr", "status", "badjson"}}
        \cup {[kind |-> "json", page |-> p] : p \in Pages}

\* What the fetch of the profile document ends in: a rejected fetch, or a
\* response (ok or not) whose text holds the steamID64 tag around some
\* number of digits, or no such tag.
NoProfile == [kind |-> "none", ok |-> FALSE, tag |-> FALSE, digits |-> 0]
ProfileOutcomes ==
    {[kind |-> "neterr", ok |-> FALSE, tag |-> FALSE, digits |-> 0]}
        \cup {[kind |-> "text", ok |-> ok, tag |-> FALSE, digits |-> 0] :
                  ok \in BOOLEAN}
        \cup {[kind |-> "text", ok |-> ok, tag |-> TRUE, digits |-> d] :
                  ok \in BOOLEAN, d \in {IdDigits - 1, IdDigits, IdDigits + 1}}

SteamIdOfOpenEnded(profile) ==
    IF profile.tag /\ profile.digits >= IdDigits THEN "id" ELSE "null"

\* getSteamId: profileXML.match(/<steamID64>(\d{17})<\/steamID64>/), the
\* digits matched or null. The identity is "id", null is "null".
SteamIdOf(profile) ==
    IF profile.tag /\ profile.digits = IdDigits THEN "id" ELSE "null"

\* The inventory request fetchInventory builds: its count, and its
\* start_assetid when it has one.
Request(steamId, count, hasStart, start) ==
    [steamId |-> steamId, count |-> count, hasStart |-> hasStart, start |-> start]

FirstRequest(steamId) == Request(steamId, FirstCount, FALSE, NoCursor)
SecondRequest(steamId, page1) ==
    Request(steamId, NextCount, TRUE, page1.last_assetid)

\* x || []
OrEmpty(f) == IF f.has THEN f.seq ELSE <<>>

\* inventory.assets.concat(...) throws a TypeError when page 1 carries no
\* such array.
CanMerge(page1) == page1.assets.has /\ page1.descriptions.has

MergeSwapped(page1, page2) ==
    [assets |-> Arr(OrEmpty(page2.assets) \o page1.assets.seq),
     descriptions |-> Arr(OrEmpty(page2.descriptions) \o page1.descriptions.seq),
     more_items |-> page2.more_items,
     last_assetid |-> page2.last_assetid]

MergeKeepPagination(page1, page2) ==
    [assets |-> Arr(page1.assets.seq \o OrEmpty(page2.assets)),
     descriptions |-> Arr(page1.descriptions.seq \o OrEmpty(page2.descriptions)),
     more_items |-> page1.more_items,
     last_assetid |-> page1.last_assetid]

\* fetchInventory, lines 41-45: page 1 with page 2's arrays appended and page
\* 2's pagination fields.
Merge(page1, page2) ==
    [assets |-> Arr(page1.assets.seq \o OrEmpty(page2.assets)),
     descriptions |-> Arr(page1.descriptions.seq \o OrEmpty(page2.descriptions)),
     more_items |-> page2.more_items,
     last_assetid |-> page2.last_assetid]

\* respond({ success: true, payload }) and respond({ success: false, error })
Success(payload) == [success |-> TRUE, payload |-> payload, error |-> ""]
Failure(message) == [success |-> FALSE, payload |-> NoPage, error |-> message]

IdleCmd ==
    [pc |-> "idle", event |-> "", hasData |-> FALSE, profile |-> NoProfile,
     steamId |-> "null", requests |-> <<>>, page1 |-> NoPage, page2 |-> NoPage,
     got1 |-> "none", got2 |-> "none", responses |-> <<>>, unhandled |-> FALSE]

\* executeCommand: fn().then(payload => respond(...)) once fn's promise is
\* fulfilled.
Fulfil(c, payload) ==
    [c EXCEPT !.pc = "done", !.responses = Append(@, Success(payload))]

\* executeCommand: .catch(err => respond(...)) once fn's promise is rejected.
Reject(c, message) ==
    [c EXCEPT !.pc = "done", !.responses = Append(@, Failure(message))]

DispatchAnswersUnknown(c, event, hasData) ==
    IF event # "get-inventory"
    THEN Reject([c EXCEPT !.event = event, !.hasData = hasData], "Unknown event")
    ELSE IF ~hasData
         THEN [c EXCEPT !.pc = "done", !.event = event, !.hasData = hasData,
                        !.unhandled = TRUE]
         ELSE [c EXCEPT !.pc = "awaitProfile", !.event = event, !.hasData = hasData]

\* The onMessage listener up to its return: an unknown event is logged; for
\* 'get-inventory' executeCommand calls fn, which reads data.appId and
\* data.contextId before any promise exists, so that a message without data
\* makes executeCommand itself reject, which nothing handles; otherwise
\* getUserInventory starts with the fetch of the profile document.
Dispatch(c, event, hasData) ==
    IF event # "get-inventory"
    THEN [c EXCEPT !.pc = "done", !.event = event, !.hasData = hasData]
    ELSE IF ~hasData
         THEN [c EXCEPT !.pc = "done", !.event = event, !.hasData = hasData,
                        !.unhandled = TRUE]
         ELSE [c EXCEPT !.pc = "awaitProfile", !.event = event, !.hasData = hasData]

\* getSteamId and getUserInventory after the profile fetch: a rejected fetch
\* rejects the command; any response is read as text and matched, and
\* fetchInventory sends its first request.
AfterProfile(c, profile) ==
    IF profile.kind = "neterr"
    THEN Reject([c EXCEPT !.profile = profile], "Failed to fetch")
    ELSE [c EXCEPT !.pc = "awaitPage1", !.profile = profile,
                   !.steamId = SteamIdOf(profile),
                   !.requests = <<FirstRequest(SteamIdOf(profile))>>]

\* The message a fetch that gave no JSON body fails with.
FetchError(kind, notOk) ==
    CASE kind = "neterr" -> "Failed to fetch"
      [] kind = "status" -> notOk
      [] OTHER -> "Unexpected token in JSON"

AfterPage1AlwaysMore(c, out) ==
    IF out.kind # "json"
    THEN Reject([c EXCEPT !.got1 = out.kind],
                FetchError(out.kind, "Failed to fetch inventory"))
    ELSE [c EXCEPT !.pc = "awaitPage2", !.got1 = out.kind, !.page1 = out.page,
                   !.requests = Append(@, SecondRequest(c.steamId, out.page))]

\* fetchInventory, lines 23-33: a first response that is not ok throws; a
\* body with more_items set sends the second request; any other body is the
\* result.
AfterPage1(c, out) ==
    IF out.kind # "json"
    THEN Reject([c EXCEPT !.got1 = out.kind],
                FetchError(out.kind, "Failed to fetch inventory"))
    ELSE IF out.page.more_items
         THEN [c EXCEPT !.pc = "awaitPage2", !.got1 = out.kind, !.page1 = out.page,
                        !.requests = Append(@, SecondRequest(c.steamId, out.page))]
         ELSE Fulfil([c EXCEPT !.got1 = out.kind, !.page1 = out.page], out.page)

\* The merge done on the first page of another command, as a variable
\* shared by the calls would have it.
AfterPage2SharedInventory(c, out) ==
    LET others == {k \in DOMAIN cmds :
                      /\ cmds[k].got1 = "json"
                      /\ CanMerge(cmds[k].page1)
                      /\ cmds[k].page1 # c.page1}
        page1 == IF others = {} THEN c.page1
                 ELSE cmds[CHOOSE k \in others : TRUE].page1
    IN IF out.kind # "json"
       THEN Reject([c EXCEPT !.got2 = out.kind],
                   FetchError(out.kind, "Failed to fetch additional inventory"))
       ELSE IF ~CanMerge(c.page1)
            THEN Reject([c EXCEPT !.got2 = out.kind, !.page2 = out.page],
                        "Cannot read properties of undefined")
            ELSE Fulfil([c EXCEPT !.got2 = out.kind, !.page2 = out.page],
                        Merge(page1, out.page))

AfterPage2Partial(c, out) ==
    IF out.kind # "json"
    THEN Fulfil([c EXCEPT !.got2 = out.kind], c.page1)
    ELSE IF ~CanMerge(c.page1)
         THEN Reject([c EXCEPT !.got2 = out.kind, !.page2 = out.page],
                     "Cannot read properties of undefined")
         ELSE Fulfil([c EXCEPT !.got2 = out.kind, !.page2 = out.page],
                     Merge(c.page1, out.page))

\* fetchInventory, lines 34-48: a second response that is not ok throws;
\* otherwise the two pages are merged and returned.
AfterPage2(c, out) ==
    IF out.kind # "json"
    THEN Reject([c EXCEPT !.got2 = out.kind],
                FetchError(out.kind, "Failed to fetch additional inventory"))
    ELSE IF ~CanMerge(c.page1)
         THEN Reject([c EXCEPT !.got2 = out.kind, !.page2 = out.page],
                     "Cannot read properties of undefined")
         ELSE Fulfil([c EXCEPT !.got2 = out.kind, !.page2 = out.page],
                     Merge(c.page1, out.page))

\* The messages of a run, and the event names they carry.
Msgs == {"m1"}
EventNames == {"get-inventory", "get-price"}

\* browser.runtime.onMessage delivers a message.
Message(m) ==
    /\ cmds[m].pc = "idle"
    /\ \E event \in EventNames, hasData \in BOOLEAN :
           cmds' = [cmds EXCEPT ![m] = Dispatch(@, event, hasData)]
    /\ UNCHANGED <<permVars, checkVars>>

\* The fetch of https://steamcommunity.com/my?xml=1 settles.
ProfileResolveFrom(m, outcomes) ==
    /\ cmds[m].pc = "awaitProfile"
    /\ \E profile \in outcomes :
           cmds' = [cmds EXCEPT ![m] = AfterProfile(@, profile)]
    /\ UNCHANGED <<permVars, checkVars>>

ProfileResolve(m) == ProfileResolveFrom(m, ProfileOutcomes)

\* The first inventory fetch settles.
Page1ResolveFrom(m, outcomes) ==
    /\ cmds[m].pc = "awaitPage1"
    /\ \E out \in outcomes :
           cmds' = [cmds EXCEPT ![m] = AfterPage1(@, out)]
    /\ UNCHANGED <<permVars, checkVars>>

Page1Resolve(m) == Page1ResolveFrom(m, FetchOutcomes)

\* The second inventory fetch settles.
Page2ResolveFrom(m, outcomes) ==
    /\ cmds[m].pc = "awaitPage2"
    /\ \E out \in outcomes :
           cmds' = [cmds EXCEPT ![m] = AfterPage2(@, out)]
    /\ UNCHANGED <<permVars, checkVars>>

Page2Resolve(m) == Page2ResolveFrom(m, FetchOutcomes)

CmdInit == cmds = [m \in Msgs |-> IdleCmd]

CmdNext ==
    \/ \E m \in DOMAIN cmds : Message(m)
    \/ \E m \in DOMAIN cmds : ProfileResolve(m)
    \/ \E m \in DOMAIN cmds : Page1Resolve(m)
    \/ \E m \in DOMAIN cmds : Page2Resolve(m)

Init == PermInit /\ CheckInit /\ CmdInit

Next ==
    \/ \E S \in SUBSET Origins : OnAdded(S)
    \/ \E S \in SUBSET Origins : OnRemoved(S)
    \/ \E i \in Events : ReadResolve(i)
    \/ \E i \in Events : WriteResolve(i)

Spec == Init /\ [][Next]_vars

\* The readiness checks of the tabs, interleaved at their awaits.
SpecCheck == Init /\ [][CheckNext]_vars

\* The inbound messages and the remote calls of their commands.
SpecCmd == Init /\ [][CmdNext]_vars

\* ------------------------------------------------- overlapping commands
\* Two messages whose commands overlap at their awaits. The remote answers
\* with a one-asset page or a refusal, and the profile request with the
\* identity or a network error; every remote call returns.
OverlapMsgs == {"m1", "m2"}

OverlapPages ==
    {[assets |-> Arr(<<i>>), descriptions |-> Arr(<<i>>), more_items |-> b,
      last_assetid |-> i] : i \in Items, b \in BOOLEAN}

OverlapFetches ==
    {o \in FetchOutcomes : o.kind = "status" \/ o.page \in OverlapPages}

OverlapProfiles ==
    {p \in ProfileOutcomes : p.kind = "neterr" \/ (p.ok /\ SteamIdOf(p) = "id")}

OverlapProfileResolve(m) == ProfileResolveFrom(m, OverlapProfiles)
OverlapPage1Resolve(m) == Page1ResolveFrom(m, OverlapFetches)
OverlapPage2Resolve(m) == Page2ResolveFrom(m, OverlapFetches)

OverlapInit ==
    /\ PermInit
    /\ CheckInit
    /\ cmds = [m \in OverlapMsgs |-> IdleCmd]

OverlapNext ==
    \/ \E m \in OverlapMsgs : Message(m)
    \/ \E m \in OverlapMsgs : OverlapProfileResolve(m)
    \/ \E m \in OverlapMsgs : OverlapPage1Resolve(m)
    \/ \E m \in OverlapMsgs : OverlapPage2Resolve(m)

\* Every remote call of a command returns: a pending fetch settles.
OverlapFairness ==
    \A m \in OverlapMsgs :
        /\ WF_vars(OverlapProfileResolve(m))
        /\ WF_vars(OverlapPage1Resolve(m))
        /\ WF_vars(OverlapPage2Resolve(m))

SpecOverlap == OverlapInit /\ [][OverlapNext]_vars /\ OverlapFairness

\* ------------------------------------- events handled one after the other
\* Every array of distinct origins.
OriginSeqs ==
    {s \in UNION {[1..n -> Origins] : n \in 0..MaxOrigins} :
        \A i, j \in 1..Len(s) : i # j => s[i] # s[j]}

AllRegistrations == {Absent} \cup {Present(s) : s \in OriginSeqs}

Quiescent == \A i \in Events : handlers[i].pc \in {"idle", "done"}

\* The same permission event delivered again, once the listener invoked for
\* the delivery before it has ended.
Redeliver(kind, S) ==
    /\ delivered < MaxEvents
    /\ Quiescent
    /\ S # {}
    /\ delivered > 0 =>
           /\ handlers[1].kind = kind
           /\ handlers[1].origins = SetToSeq(S)
    /\ granted' = IF kind = "added" THEN granted \cup S ELSE granted \ S
    /\ delivered' = delivered + 1
    /\ handlers' = [handlers EXCEPT ![delivered + 1] = Invoke(kind, SetToSeq(S))]
    /\ UNCHANGED <<registration, doneReg, checkVars, cmdVars>>

SeqInit ==
    /\ registration \in AllRegistrations
    /\ granted = Range(registration.matches)
    /\ handlers = [i \in Events |-> IdleHandler]
    /\ delivered = 0
    /\ doneReg = [i \in Events |-> Absent]
    /\ CheckInit
    /\ CmdInit

SeqNext ==
    \/ \E kind \in {"added", "removed"}, S \in SUBSET Origins : Redeliver(kind, S)
    \/ \E i \in Events : ReadResolve(i)
    \/ \E i \in Events : WriteResolve(i)

SpecSeq == SeqInit /\ [][SeqNext]_vars

\* Permission events delivered only once the listener of the event before
\* has ended.
OrderedAdded(S) == Quiescent /\ OnAdded(S)
OrderedRemoved(S) == Quiescent /\ OnRemoved(S)

OrderedNext ==
    \/ \E S \in SUBSET Origins : OrderedAdded(S)
    \/ \E S \in SUBSET Origins : OrderedRemoved(S)
    \/ \E i \in Events : ReadResolve(i)
    \/ \E i \in Events : WriteResolve(i)

SpecOrdered == Init /\ [][OrderedNext]_vars

\* ------------------------------------------------------------ properties
Synced ==
    IF granted = {} THEN ~registration.present
    ELSE registration.present /\ Range(registration.matches) = granted

\* C1: once every delivered permission event's listener has run to
\* completion, the registered script's matches are exactly the granted
\* origins, and no script is registered when none is granted.
C1_SyncedWhenQuiescent == Quiescent => Synced

\* C2: a later-delivered listener never reads the registration between an
\* earlier listener's read and that listener's write, and no listener writes
\* matches computed from a registration that has changed since it read it.
C2_OneAtATime ==
    [][/\ \A i, j \in Events :
            (i < j /\ handlers[j].pc = "awaitRead" /\ handlers'[j].pc # "awaitRead")
                => handlers[i].pc # "awaitWrite"
       /\ \A i \in Events :
            (handlers[i].pc = "awaitWrite" /\ handlers'[i].pc = "done")
                => handlers[i].activeScript = registration]_vars

\* C3: a registered content script never has an empty list of matches.
C3_NeverRegisteredEmpty == registration.present => Len(registration.matches) > 0

\* A removal that left no origin of a registered script unregistered it.
C3_Witness ==
    \E i \in Events :
        /\ handlers[i].kind = "removed"
        /\ handlers[i].pc = "done"
        /\ handlers[i].activeScript.present
        /\ handlers[i].matches = <<>>
        /\ handlers[i].call = "unregister"
        /\ ~registration.present

\* C10: handled one after the other, a permission event applied again leaves
\* the registration as its first application left it.
C10_Idempotent ==
    \A i \in Events :
        (i > 1 /\ handlers[i].pc = "done") => doneReg[i] = doneReg[1]

\* A grant that changed a registered script's matches was applied again.
C10_Witness ==
    /\ handlers[2].pc = "done"
    /\ handlers[2].kind = "added"
    /\ handlers[1].activeScript.present
    /\ doneReg[1] # handlers[1].activeScript
    /\ handlers[2].call = "update"

Ended(c) == c.pc \in {"ready", "failed"}

\* C4: a readiness check never calls executeScript more than twice and never
\* sends more than two probes, whatever the host answers.
C4_AtMostTwoAttempts ==
    \A t \in Tabs : Len(checks[t].injections) <= 2 /\ Len(checks[t].probes) <= 2

\* A check that probed twice and injected twice.
C4_Witness ==
    \E t \in Tabs : Len(checks[t].injections) = 2 /\ Len(checks[t].probes) = 2

ProbesAllFailed(c) == \A k \in 1..Len(c.probes) : c.probes[k] # "response"

\* C5 as stated: a check whose probes all failed has ended after exactly two
\* injection attempts with the error that names its tab.
C5_AlwaysInjectionError ==
    \A t \in Tabs :
        (Ended(checks[t]) /\ ProbesAllFailed(checks[t])) =>
            /\ Len(checks[t].injections) = 2
            /\ checks[t].error = InjectionError(t)

\* C5 amended: a check whose probes all failed ends with the error naming its
\* tab after exactly two injection attempts when executeScript never
\* rejected, and with executeScript's own error right after the attempt (the
\* first or the second) that rejected; never after three attempts.
C5_InjectionErrorUnlessRejected ==
    \A t \in Tabs :
        (Ended(checks[t]) /\ ProbesAllFailed(checks[t])) =>
            LET inj == checks[t].injections
                n == Len(inj)
            IN /\ n \in {1, 2}
               /\ \A k \in 1..(n - 1) : inj[k] = "injected"
               /\ inj[n] = "injected" =>
                      (n = 2 /\ checks[t].error = InjectionError(t))
               /\ inj[n] = "rejects" => checks[t].error = ExecuteScriptError

\* Two probes failed, two injections went through, and the check failed
\* naming its tab.
C5_Witness ==
    \E t \in Tabs :
        /\ checks[t].pc = "failed"
        /\ ProbesAllFailed(checks[t])
        /\ checks[t].injections = <<"injected", "injected">>
        /\ checks[t].error = InjectionError(t)

Served(c) == c.pc = "done" /\ c.event = "get-inventory"

\* A failure was raised while the command was served: reading the fields of
\* a message without data, a rejected or refused or unreadable fetch, or the
\* merge of a first page without arrays.
FailureRaised(c) ==
    \/ ~c.hasData
    \/ c.profile.kind = "neterr"
    \/ c.got1 \in {"neterr", "status", "badjson"}
    \/ c.got2 \in {"neterr", "status", "badjson"}
    \/ c.got2 = "json" /\ ~CanMerge(c.page1)

\* C6: every failure raised while a get-inventory command is served reaches
\* the caller as the one envelope { success: false, error }, and nothing is
\* left as an unhandled rejection.
C6_FailuresEnveloped ==
    \A m \in DOMAIN cmds :
        (Served(cmds[m]) /\ FailureRaised(cmds[m])) =>
            /\ ~cmds[m].unhandled
            /\ Len(cmds[m].responses) = 1
            /\ ~cmds[m].responses[1].success
            /\ cmds[m].responses[1].error # ""

TwoPages(c) ==
    /\ c.pc = "done"
    /\ c.got1 = "json" /\ c.page1.more_items /\ CanMerge(c.page1)
    /\ c.got2 = "json"

\* C7: when page 1 (carrying its two arrays) has more_items set and page 2
\* succeeds, exactly two requests were sent, the second with count 2000 and
\* page 1's last_assetid as start_assetid, and the result's assets and
\* descriptions are page 1's followed by page 2's, an array missing from
\* page 2 counting as empty.
C7_TwoPagesMerged ==
    \A m \in DOMAIN cmds :
        TwoPages(cmds[m]) =>
            LET c == cmds[m]
                a2 == IF c.page2.assets.has THEN c.page2.assets.seq ELSE <<>>
                d2 == IF c.page2.descriptions.has
                      THEN c.page2.descriptions.seq ELSE <<>>
            IN /\ Len(c.requests) = 2
               /\ c.requests[1].count = FirstCount /\ ~c.requests[1].hasStart
               /\ c.requests[2].count = NextCount
               /\ c.requests[2].hasStart
               /\ c.requests[2].start = c.page1.last_assetid
               /\ Len(c.responses) = 1
               /\ c.responses[1].success
               /\ c.responses[1].payload.assets = Arr(c.page1.assets.seq \o a2)
               /\ c.responses[1].payload.descriptions =
                      Arr(c.page1.descriptions.seq \o d2)

\* A merge of a non-empty page 1 with a page 2 that lacks its assets array
\* and carries a different description.
C7_Witness ==
    \E m \in DOMAIN cmds :
        /\ TwoPages(cmds[m])
        /\ cmds[m].page1.assets.seq # <<>>
        /\ ~cmds[m].page2.assets.has
        /\ cmds[m].page1.descriptions.seq = <<1>>
        /\ cmds[m].page2.descriptions = Arr(<<2>>)
        /\ cmds[m].responses[1].payload.descriptions = Arr(<<1, 2>>)

\* C8: when page 1 succeeds without more_items, one request was sent, with
\* count 75 and no start_assetid, and the result is page 1 as received.
C8_OnePageUnmodified ==
    \A m \in DOMAIN cmds :
        (cmds[m].pc \in {"awaitPage2", "done"} /\ cmds[m].got1 = "json"
            /\ ~cmds[m].page1.more_items) =>
            /\ cmds[m].pc = "done"
            /\ cmds[m].requests =
                   <<[steamId |-> cmds[m].steamId, count |-> FirstCount,
                      hasStart |-> FALSE, start |-> NoCursor]>>
            /\ cmds[m].responses = <<Success(cmds[m].page1)>>

\* A single page with an asset and a cursor was returned as it came.
C8_Witness ==
    \E m \in DOMAIN cmds :
        /\ cmds[m].pc = "done"
        /\ cmds[m].got1 = "json"
        /\ ~cmds[m].page1.more_items
        /\ cmds[m].page1.assets.seq # <<>>
        /\ cmds[m].page1.last_assetid # NoCursor
        /\ Len(cmds[m].responses) = 1

\* C9: a first response that is not ok fails the fetch with no second
\* request sent, and a second response that is not ok fails it too, page 1
\* is not returned alone; neither produces a successful result.
C9_NonSuccessFails ==
    \A m \in DOMAIN cmds :
        /\ cmds[m].got1 = "status" =>
               /\ cmds[m].pc = "done"
               /\ Len(cmds[m].requests) = 1
               /\ Len(cmds[m].responses) = 1
               /\ ~cmds[m].responses[1].success
        /\ cmds[m].got2 = "status" =>
               /\ cmds[m].pc = "done"
               /\ Len(cmds[m].requests) = 2
               /\ Len(cmds[m].responses) = 1
               /\ ~cmds[m].responses[1].success
               /\ cmds[m].responses[1].payload = NoPage

\* A second response that was not ok, after a first page with an asset.
C9_Witness ==
    \E m \in DOMAIN cmds :
        /\ cmds[m].got2 = "status"
        /\ cmds[m].page1.assets.seq # <<>>
        /\ cmds[m].responses =
               <<Failure("Failed to fetch additional inventory")>>

\* A grant of origins handled to completion while no script was registered,
\* followed at once by the revocation of the same origins.
GrantThenRevoke(i) ==
    /\ handlers[i].kind = "added"
    /\ handlers[i].origins # <<>>
    /\ ~handlers[i].activeScript.present
    /\ handlers[i + 1].kind = "removed"
    /\ handlers[i + 1].origins = handlers[i].origins
    /\ handlers[i + 1].pc = "done"

\* C11: from no registration, a grant of {o} handled to completion and
\* followed immediately by the revocation of {o} leaves no registration.
C11_Complementary ==
    \A i \in Events :
        (i + 1 \in Events /\ GrantThenRevoke(i)) => doneReg[i + 1] = Absent

\* The first event granted origins and registered them, the second revoked
\* them and unregistered the script.
C11_Witness ==
    /\ GrantThenRevoke(1)
    /\ doneReg[1] = Present(handlers[1].origins)
    /\ handlers[2].call = "unregister"
    /\ registration = Absent

\* C19: a permission-removed listener whose read found no registration calls
\* neither register nor update nor unregister, and no permission-removed
\* listener ever calls register, in any interleaving.
C19_RemovedNeverRegisters ==
    \A i \in Events :
        handlers[i].kind = "removed" =>
            /\ handlers[i].call # "register"
            /\ (handlers[i].pc \in {"awaitWrite", "done"}
                    /\ ~handlers[i].activeScript.present) =>
                   (handlers[i].call = "none" /\ handlers[i].pc = "done")

\* A revocation read no registration while the grant before it had not yet
\* registered, and ended without a call.
C19_Witness ==
    \E i, j \in Events :
        /\ handlers[i].kind = "removed"
        /\ handlers[i].origins # <<>>
        /\ handlers[i].pc = "done"
        /\ ~handlers[i].activeScript.present
        /\ handlers[i].call = "none"
        /\ handlers[j].kind = "added"
        /\ handlers[j].pc = "awaitWrite"

\* C12: a check whose first probe got a defined response is ready, with one
\* probe sent and no injection attempted.
C12_ReadyWithoutInjection ==
    \A t \in Tabs :
        (Len(checks[t].probes) >= 1 /\ checks[t].probes[1] = "response") =>
            /\ checks[t].pc = "ready"
            /\ Len(checks[t].probes) = 1
            /\ checks[t].injections = <<>>
            /\ checks[t].error = NoError

\* A check that is ready after its first probe.
C12_Witness ==
    \E t \in Tabs :
        checks[t].pc = "ready" /\ checks[t].probes = <<"response">>

FirstProbeFailed(c) ==
    Len(c.probes) >= 1 /\ c.probes[1] \in {"undefined", "throws"}

\* C18: a first probe that returns undefined and one that throws both lead
\* to an injection; when that injection goes through and the second probe
\* gets a defined response, the check is ready after exactly one injection
\* and two probes.
C18_UndefinedLikeThrow ==
    \A t \in Tabs :
        /\ FirstProbeFailed(checks[t]) =>
               \/ checks[t].pc = "injecting" /\ checks[t].injections = <<>>
               \/ Len(checks[t].injections) >= 1
        /\ (FirstProbeFailed(checks[t]) /\ Len(checks[t].probes) = 2
                /\ checks[t].probes[2] = "response") =>
               /\ checks[t].pc = "ready"
               /\ checks[t].injections = <<"injected">>
               /\ checks[t].error = NoError

\* On one tab the first probe returned undefined, on another it threw, and
\* both checks are ready after one injection and a second probe.
C18_Witness ==
    \E t, u \in Tabs :
        /\ checks[t].pc = "ready"
        /\ checks[t].probes = <<"undefined", "response">>
        /\ checks[t].injections = <<"injected">>
        /\ checks[u].pc = "ready"
        /\ checks[u].probes = <<"throws", "response">>
        /\ checks[u].injections = <<"injected">>

\* C15: a check started by an action click that failed with the error naming
\* its tab reached a caller as the envelope { success: false, error } and
\* left no unhandled rejection.
C15_ClickFailureEnveloped ==
    \A t \in Tabs :
        (checks[t].pc = "failed" /\ checks[t].error = InjectionError(t)) =>
            /\ ~checks[t].unhandled
            /\ Len(checks[t].envelopes) = 1
            /\ ~checks[t].envelopes[1].success

\* C13: a profile request that ends in a network error or in a response that
\* is not 2xx makes getSteamId fail: the command is rejected there, before
\* any inventory request.
C13_TransportFailurePropagates ==
    \A m \in DOMAIN cmds :
        (\/ cmds[m].profile.kind = "neterr"
         \/ cmds[m].profile.kind = "text" /\ ~cmds[m].profile.ok) =>
            /\ cmds[m].pc = "done"
            /\ cmds[m].requests = <<>>
            /\ Len(cmds[m].responses) = 1
            /\ ~cmds[m].responses[1].success

NoIdentityIn(profile) ==
    profile.kind = "text" /\ ~(profile.tag /\ profile.digits = IdDigits)

\* C14: a profile document without the steamID64 tag around exactly 17
\* digits gives the identity null without failing, and the command goes on
\* to the inventory fetch with that null identity.
C14_NullIdentityProceeds ==
    \A m \in DOMAIN cmds :
        NoIdentityIn(cmds[m].profile) =>
            /\ cmds[m].steamId = "null"
            /\ Len(cmds[m].requests) >= 1
            /\ cmds[m].requests[1].steamId = "null"
            /\ cmds[m].requests[1].count = FirstCount
            /\ cmds[m].pc \in {"awaitPage1", "awaitPage2", "done"}
            /\ cmds[m].got1 = "none" => cmds[m].pc = "awaitPage1"

\* A tag around 18 digits gave null and the inventory of null was fetched.
C14_Witness ==
    \E m \in DOMAIN cmds :
        /\ cmds[m].profile.tag
        /\ cmds[m].profile.digits = IdDigits + 1
        /\ cmds[m].steamId = "null"
        /\ cmds[m].got1 = "json"
        /\ Len(cmds[m].responses) = 1
        /\ cmds[m].responses[1].success

\* C16: a message whose event is no known command gets no response, starts
\* no remote request and leaves the registration as it was.
C16_UnknownEventIgnored ==
    \A m \in DOMAIN cmds :
        cmds[m].event \notin {"", "get-inventory"} =>
            /\ cmds[m].pc = "done"
            /\ cmds[m].responses = <<>>
            /\ cmds[m].requests = <<>>
            /\ cmds[m].profile = NoProfile
            /\ ~cmds[m].unhandled
            /\ registration = Absent

\* A message with an unknown event and a data field was delivered.
C16_Witness ==
    \E m \in DOMAIN cmds :
        cmds[m].event = "get-price" /\ cmds[m].hasData /\ cmds[m].pc = "done"

\* C17: a command never sends more than two inventory requests; when page 2
\* itself has more_items set no third request follows, and the merged
\* result carries page 2's more_items and last_assetid.
C17_TwoRequestsAtMost ==
    \A m \in DOMAIN cmds :
        /\ Len(cmds[m].requests) <= 2
        /\ cmds[m].got2 = "json" => cmds[m].pc = "done"
        /\ TwoPages(cmds[m]) =>
               /\ Len(cmds[m].responses) = 1
               /\ cmds[m].responses[1].success
               /\ cmds[m].responses[1].payload.more_items = cmds[m].page2.more_items
               /\ cmds[m].responses[1].payload.last_assetid =
                      cmds[m].page2.last_assetid

\* Page 2 had more_items set and a cursor other than page 1's; the result
\* reports more_items with page 2's cursor after two requests.
C17_Witness ==
    \E m \in DOMAIN cmds :
        /\ TwoPages(cmds[m])
        /\ cmds[m].page2.more_items
        /\ cmds[m].page2.last_assetid # NoCursor
        /\ cmds[m].page2.last_assetid # cmds[m].page1.last_assetid
        /\ Len(cmds[m].requests) = 2
        /\ cmds[m].responses[1].payload.more_items
        /\ cmds[m].responses[1].payload.last_assetid = cmds[m].page2.last_assetid

WellFormed(c) == c.event = "get-inventory" /\ c.hasData

\* The envelope of a command is built from the pages that command fetched:
\* a success carries its page 1, or its page 1 followed by its page 2 with
\* page 2's pagination, and a failure follows a failure of its own.
OwnEnvelope(c, e) ==
    IF e.success
    THEN /\ c.got1 = "json"
         /\ IF c.page1.more_items
            THEN /\ c.got2 = "json"
                 /\ e.payload.assets.seq =
                        c.page1.assets.seq
                            \o (IF c.page2.assets.has THEN c.page2.assets.seq
                                ELSE <<>>)
                 /\ e.payload.descriptions.seq =
                        c.page1.descriptions.seq
                            \o (IF c.page2.descriptions.has
                                THEN c.page2.descriptions.seq ELSE <<>>)
                 /\ e.payload.more_items = c.page2.more_items
                 /\ e.payload.last_assetid = c.page2.last_assetid
            ELSE e.payload = c.page1
    ELSE FailureRaised(c) /\ e.error # ""

RespondedOnce(c) ==
    /\ Len(c.responses) <= 1
    /\ (c.pc = "done" /\ WellFormed(c)) => Len(c.responses) = 1
    /\ \A k \in 1..Len(c.responses) : OwnEnvelope(c, c.responses[k])

\* C20: for a get-inventory message with data whose remote calls all return,
\* respond is eventually called, and it is called once, with a success
\* envelope carrying the inventory or with a failure envelope; with two
\* commands overlapping, each envelope is built from its own command's pages.
C20_RespondsExactlyOnce ==
    /\ [](\A m \in OverlapMsgs : RespondedOnce(cmds[m]))
    /\ \A m \in OverlapMsgs :
           WellFormed(cmds[m]) ~> (cmds[m].pc = "done" /\ Len(cmds[m].responses) = 1)

\* Both commands got their merged inventories, of different pages, and one of
\* them was answered while the other still awaited its second page.
C20_Witness ==
    /\ \A m \in OverlapMsgs :
           /\ WellFormed(cmds[m])
           /\ cmds[m].got1 = "json" /\ cmds[m].page1.more_items
    /\ cmds["m1"].page1 # cmds["m2"].page1
    /\ cmds["m1"].pc = "done"
    /\ cmds["m1"].got2 = "json"
    /\ Len(cmds["m1"].responses) = 1
    /\ cmds["m1"].responses[1].success
    /\ cmds["m2"].pc = "awaitPage2"

====
